---- MODULE Spec2Model ----
(***************************************************************************)
(* A model of the wellness-tips single-page application:                  *)
(*   - the generative tip client (services/aiService.ts): one HTTP        *)
(*     request per attempt, validation of the answer, one retry, final    *)
(*     error classification;                                               *)
(*   - the tips board (components/TipsBoard.tsx): read-through /          *)
(*     write-through caching of tip lists and tip details in              *)
(*     localStorage, regenerate, save / unsave, logout;                   *)
(*   - the saved-tip registry (contexts/SavedTipsContext.tsx).            *)
(*                                                                         *)
(* Strings that the code builds by concatenation are sequences of their   *)
(* pieces; a localStorage value is the text JSON.stringify produced, or   *)
(* a text that is not JSON.                                                *)
(***************************************************************************)
EXTENDS Integers, Sequences, FiniteSets, TLC

(***************************************************************************)
(* Bounds of the model.                                                    *)
(***************************************************************************)
\* longest array the upstream model answers with (the code keeps 5)
MaxUpstreamLen == 6
\* highest value of the clock read by Date.now()
MaxClock == 1

(***************************************************************************)
(* Program constants.                                                      *)
(***************************************************************************)
\* parsed.slice(0, 5)
SliceEnd == 5
\* withRetry(fetchTips, 1, 1000): number of retries
Retries == 1
\* const age = profile.age ?? 30
DefaultAge == 30

(***************************************************************************)
(* JSON values and errors.                                                 *)
(***************************************************************************)
\* null / undefined / a missing localStorage key
Null == [kind |-> "null"]

\* a Tip as the upstream wrote it: the code never looks inside an element
Tip(id, title) == [kind |-> "object", id |-> id, title |-> title]

TipA == Tip("wind-down-routine", "Start a Wind-Down Routine")
TipB == Tip("limit-caffeine", "Limit Caffeine After Noon")
TipC == Tip("morning-walk", "Take a Morning Walk")
\* an element with an empty id and an empty title
TipBlank == Tip("", "")

JsonArray(items) == [kind |-> "array", items |-> items]
JsonObject == [kind |-> "object", id |-> "", title |-> ""]

\* new Error(msg), new TypeError(msg), SyntaxError: msg is the sequence of the
\* pieces the message is concatenated from
Err(type, msg) == [type |-> type, msg |-> msg]

IsErrorInstance(e) == e.type \in {"Error", "TypeError", "SyntaxError"}

\* error.message.includes('fetch')
IncludesFetch(msg) ==
    \E i \in 1..Len(msg) :
        msg[i] \in {"Failed to fetch", "NetworkError when attempting to fetch resource."}

ConfigError == Err("Error", <<"API configuration error. Please check your environment settings.">>)
NetworkError ==
    Err("Error", <<"Network error: Unable to connect to the server. Please check your internet connection.">>)
UnexpectedError(fn) ==
    Err("Error", IF fn = "tips"
                 THEN <<"An unexpected error occurred while generating tips. Please try again.">>
                 ELSE <<"An unexpected error occurred while loading tip details. Please try again.">>)

Ok(v) == [ok |-> TRUE, value |-> v]
Fail(e) == [ok |-> FALSE, error |-> e]

(***************************************************************************)
(* What one HTTP request can be answered with.                             *)
(***************************************************************************)
Str(s) == [kind |-> "string", s |-> s]
Num(n) == [kind |-> "number", n |-> n]

\* JavaScript truthiness of a JSON value
Truthy(v) ==
    CASE v.kind = "null" -> FALSE
      [] v.kind = "string" -> v.s # ""
      [] v.kind = "number" -> v.n # 0
      [] OTHER -> TRUE

Catalog == <<TipA, TipB, TipC, TipBlank>>

\* the n elements of the catalog from position k on, cyclically
Window(k, n) == [i \in 1..n |-> Catalog[((k + i - 2) % Len(Catalog)) + 1]]

\* the arrays the upstream model answers a list prompt with
UpstreamArrays == {Window(k, n) : k \in 1..Len(Catalog), n \in 0..MaxUpstreamLen}

TipDetailValue(d, st) == [kind |-> "object", description |-> d, steps |-> st]

DetailOne == TipDetailValue(Str("Dim the lights an hour before bed."), JsonArray(<<Str("Set an alarm")>>))
DetailTwo == TipDetailValue(Str("Walk for ten minutes after waking."), JsonArray(<<Str("Put shoes by the door")>>))

\* the objects the upstream model answers a detail prompt with
UpstreamDetails ==
    {TipDetailValue(d, st) :
        d \in {Null, Str(""), Str("Dim the lights an hour before bed."), Num(7)},
        st \in {Null, Str("Set an alarm"), JsonArray(<<>>), JsonArray(<<Str("Set an alarm")>>)}}
    \cup {DetailTwo}

\* the text of candidates[0].content.parts, joined
RawText(fenced, body) == [kind |-> "text", fenced |-> fenced, body |-> body]
BlankText == [kind |-> "blank"]

\* body of a text that is not JSON
Garbage == [kind |-> "garbage"]

TextBodies(fn) ==
    {Garbage, Null}
    \cup (IF fn = "tips"
          THEN {JsonArray(a) : a \in UpstreamArrays} \cup {JsonObject}
          ELSE UpstreamDetails \cup {JsonArray(<<>>)})

\* upstream error.message values: "" stands for a missing or empty message
UpstreamMessages == {"", "quota exceeded"}

\* everything one fetch(...) can end in
Responses(fn) ==
    {[kind |-> "reject", msg |-> m] : m \in {"Failed to fetch", "Load failed"}}
    \cup {[kind |-> "status", status |-> "429", statusText |-> "Too Many Requests", msg |-> m] :
            m \in UpstreamMessages}
    \cup {[kind |-> "badbody"], [kind |-> "nocandidates"], [kind |-> "badparts"]}
    \cup {[kind |-> "apierror", msg |-> m] : m \in UpstreamMessages}
    \cup {[kind |-> "ok", text |-> BlankText]}
    \cup {[kind |-> "ok", text |-> RawText(f, b)] : f \in BOOLEAN, b \in TextBodies(fn)}

(***************************************************************************)
(* services/aiService.ts                                                    *)
(***************************************************************************)
\* extractJsonBlock: a fenced text loses its fence, any other text is kept
extractJsonBlock(text) == [text EXCEPT !.fenced = FALSE]

\* ---- extractJsonBlock on the characters of the text ----
\* a text is a sequence of characters: the backtick (written "bt"), a letter,
\* a digit, white space, and the brackets of a JSON array; the texts tried
\* are made of the tokens below, with the line break as their white space
Fence == <<"bt", "bt", "bt">>
Letters == {"j"}
Digits == {"5"}
Spaces == {" ", "\n"}
ArrayText == <<"[", "5", "]">>
Tokens == {Fence, <<"bt">>, <<"j">>, <<"5">>, <<"\n">>, ArrayText}

\* the first index, from the given one on, whose character is not in chars
Skip(s, from, chars) ==
    CHOOSE i \in from..(Len(s) + 1) :
        /\ i = Len(s) + 1 \/ s[i] \notin chars
        /\ \A j \in from..(i - 1) : s[j] \in chars

\* String.prototype.trim
trim(s) ==
    LET first == Skip(s, 1, Spaces)
        last == CHOOSE i \in 0..Len(s) :
                    /\ i = 0 \/ s[i] \notin Spaces
                    /\ \A j \in (i + 1)..Len(s) : s[j] \in Spaces
    IN SubSeq(s, first, last)

\* String.prototype.startsWith
startsWith(s, p) == Len(s) >= Len(p) /\ SubSeq(s, 1, Len(p)) = p

\* the 0-based indexes at which p occurs in s
Occurrences(s, p) == {i \in 0..(Len(s) - Len(p)) : SubSeq(s, i + 1, i + Len(p)) = p}

\* a search that returns the first occurrence
indexOf(s, p) ==
    LET hits == Occurrences(s, p) IN
    IF hits = {} THEN -1 ELSE CHOOSE i \in hits : \A j \in hits : i <= j

\* String.prototype.lastIndexOf
lastIndexOf(s, p) ==
    LET hits == Occurrences(s, p) IN
    IF hits = {} THEN -1 ELSE CHOOSE i \in hits : \A j \in hits : j <= i

\* trimmed.replace(re, '') of a text that starts with the fence, for re the
\* fence at the start, then [a-zA-Z]*, then \s*
withoutOpeningFence(s) ==
    LET afterTag == Skip(s, Len(Fence) + 1, Letters)
        afterSpace == Skip(s, afterTag, Spaces)
    IN SubSeq(s, afterSpace, Len(s))

\* extractJsonBlock(text), character by character
ExtractJsonBlock(text) ==
    LET trimmed == trim(text) IN
    IF startsWith(trimmed, Fence)
    THEN LET withoutFence == withoutOpeningFence(trimmed)
             endIndex == lastIndexOf(withoutFence, Fence)
         IN IF endIndex # -1
            THEN trim(SubSeq(withoutFence, 1, endIndex))
            ELSE trim(withoutFence)
    ELSE trimmed

\* JSON.parse of a response text
JsonParse(text) ==
    IF text.fenced \/ text.body = Garbage
    THEN Fail(Err("SyntaxError", <<"Unexpected token">>))
    ELSE Ok(text.body)

\* a slice that keeps the whole array
SliceAll(items, end) == items

\* Array.prototype.slice(0, end)
Slice(items, end) == SubSeq(items, 1, IF Len(items) < end THEN Len(items) ELSE end)

\* an error message that ignores what the upstream sent
ErrorMessageGeneric(resp) == <<"Server error: ", resp.status, " ", resp.statusText>>

\* errorData?.error?.message || `Server error: ${response.status} ${response.statusText}`
ErrorMessage(resp) ==
    IF resp.msg # "" THEN <<resp.msg>>
    ELSE <<"Server error: ", resp.status, " ", resp.statusText>>

\* the steps of fetchTips / fetchDetail up to the text of the answer
ResponseText(fn, resp) ==
    CASE resp.kind = "reject" -> Fail(Err("TypeError", <<resp.msg>>))
      [] resp.kind = "status" ->
            Fail(Err("Error",
                     <<IF fn = "tips" THEN "Failed to generate tips: "
                                      ELSE "Failed to load tip details: ">>
                     \o ErrorMessage(resp)))
      [] resp.kind = "badbody" -> Fail(Err("SyntaxError", <<"Unexpected token">>))
      [] resp.kind = "apierror" ->
            Fail(Err("Error", <<IF resp.msg # "" THEN resp.msg ELSE "API returned an error">>))
      [] resp.kind = "nocandidates" -> Fail(Err("Error", <<"Invalid response format from API">>))
      [] resp.kind = "badparts" -> Fail(Err("TypeError", <<"parts.map is not a function">>))
      [] resp.text.kind = "blank" -> Fail(Err("Error", <<"Empty response from API">>))
      [] OTHER -> Ok(resp.text)

ParseFailure ==
    Fail(Err("Error", <<"Failed to parse API response. The response may not be valid JSON.">>))

\* one attempt of fetchTips, given what the HTTP request was answered with
fetchTips(resp) ==
    LET text == ResponseText("tips", resp) IN
    IF ~text.ok THEN text
    ELSE LET parsed == JsonParse(extractJsonBlock(text.value)) IN
         IF ~parsed.ok THEN ParseFailure
         ELSE IF parsed.value.kind # "array" \/ Len(parsed.value.items) = 0
              THEN Fail(Err("Error", <<"API did not return any tips">>))
              ELSE Ok(Slice(parsed.value.items, SliceEnd))

\* one attempt of fetchDetail
fetchDetail(resp) ==
    LET text == ResponseText("detail", resp) IN
    IF ~text.ok THEN text
    ELSE LET parsed == JsonParse(extractJsonBlock(text.value)) IN
         IF ~parsed.ok THEN ParseFailure
         ELSE LET v == parsed.value IN
              IF v.kind = "null"
              THEN Fail(Err("TypeError", <<"Cannot read properties of null (reading 'description')">>))
              ELSE IF v.kind # "object"
                      \/ ~Truthy(v.description) \/ ~Truthy(v.steps) \/ v.steps.kind # "array"
                   THEN Fail(Err("Error", <<"Invalid tip detail format received from API">>))
                   ELSE Ok(v)

Attempt(fn, resp) == IF fn = "tips" THEN fetchTips(resp) ELSE fetchDetail(resp)

\* the catch block of fetchGeminiTips / fetchGeminiDetail
Classify(fn, e) ==
    IF e.type = "TypeError" /\ IncludesFetch(e.msg) THEN NetworkError
    ELSE IF IsErrorInstance(e) THEN e
    ELSE UnexpectedError(fn)

\* A call of fetchGeminiTips / fetchGeminiDetail in progress.
\*   pc       "http": an HTTP request is awaited; "delay": the retry timer runs;
\*            "done": the promise is settled
\*   retries  the retries parameter of the running withRetry
\*   entered  withRetry was called
\*   http     HTTP requests issued so far
\*   errs     the errors the attempts threw, in order
\*   outcome  how the promise settled
Pending == [ok |-> FALSE, error |-> Err("none", <<>>)]

\* a call that goes to the network without looking at the key
StartCallUnchecked(fn, hasKey) ==
    [fn |-> fn, pc |-> "http", retries |-> Retries, entered |-> TRUE, http |-> 1,
     errs |-> <<>>, outcome |-> Pending]

\* fetchGeminiTips(...) / fetchGeminiDetail(...) up to the first await
StartCall(fn, hasKey) ==
    IF ~hasKey
    THEN [fn |-> fn, pc |-> "done", retries |-> Retries, entered |-> FALSE, http |-> 0,
          errs |-> <<>>, outcome |-> Fail(ConfigError)]
    ELSE [fn |-> fn, pc |-> "http", retries |-> Retries, entered |-> TRUE, http |-> 1,
          errs |-> <<>>, outcome |-> Pending]

\* a retry wrapper that throws the error of the first attempt
RetryExhaustedFirst(errs) == errs[1]

\* what withRetry throws when no retry is left
RetryExhausted(errs) == errs[Len(errs)]

\* withRetry, when the awaited attempt settles
OnResponse(c, resp) ==
    LET r == Attempt(c.fn, resp) IN
    IF r.ok THEN [c EXCEPT !.pc = "done", !.outcome = r]
    ELSE LET errs == Append(c.errs, r.error) IN
         IF c.retries > 0
         THEN [c EXCEPT !.pc = "delay", !.errs = errs]
         ELSE [c EXCEPT !.pc = "done", !.errs = errs,
                        !.outcome = Fail(Classify(c.fn, RetryExhausted(errs)))]

\* a retry that does not count itself
OnDelayUncounted(c) == [c EXCEPT !.pc = "http", !.http = @ + 1]

\* withRetry, when the setTimeout of the retry fires: fn() runs again
OnDelay(c) == [c EXCEPT !.pc = "http", !.retries = @ - 1, !.http = @ + 1]

(***************************************************************************)
(* State.                                                                  *)
(***************************************************************************)
VARIABLES
    apiKey,         \* import.meta.env.VITE_GEMINI_API_KEY is set
    store,          \* window.localStorage: key -> text, present keys only
    now,            \* Date.now()
    route,          \* the route shown: "/", "/board", "/board/saved", "/board/:tipId"
    tipId,          \* useParams().tipId, "" when the route has none
    goalLabel,      \* TipsBoard state
    tips,
    loading,
    error,
    selectedTip,
    detail,
    detailLoading,
    detailError,
    savedTips,      \* SavedTipsProvider state
    listReqs,       \* fetchGeminiTips promises not yet settled, with their handlers
    detailReqs,     \* fetchGeminiDetail promises not yet settled, with their handlers
    call,           \* a call of the client observed on its own
    form,           \* ProfileCapture state: age, gender, selectedGoals, errors
    tipsData,       \* SavedTipsBoard state: the ids of the tips read from the cache
    obs,            \* what the last step did (observation only)
    calls           \* the last loadTips(true) calls made in a row for one key (observation only)

boardVars == <<goalLabel, tips, loading, error, selectedTip, detail, detailLoading, detailError>>
vars == <<apiKey, store, now, route, tipId, boardVars, savedTips, listReqs, detailReqs, call, form, tipsData, obs, calls>>

(***************************************************************************)
(* window.localStorage                                                      *)
(***************************************************************************)
ProfileKey == <<"wellnessProfile">>
STORAGE_KEY == <<"wellnessSavedTips">>
TipsKey(label, age) == <<"tips:", label, ":", age>>
DetailKey(label, id, age) == <<"tipDetail:", label, ":", id, ":", age>>

getItem(st, key) == IF key \in DOMAIN st THEN st[key] ELSE Null
setItem(st, key, text) == [k \in DOMAIN st \cup {key} |-> IF k = key THEN text ELSE st[k]]
\* a removal that takes every cached list and detail with it
removeItemCaches(st, key) ==
    [k \in {j \in DOMAIN st : j # key /\ j[1] \notin {"tips:", "tipDetail:"}} |-> st[k]]

\* a removal that leaves the key in place
removeItemKept(st, key) == st

removeItem(st, key) == [k \in DOMAIN st \ {key} |-> st[k]]

\* JSON.stringify of a value that came out of JSON.parse or holds only
\* strings, numbers and arrays
JsonStringify(v) == RawText(FALSE, v)

\* a write that keeps the entry that is already there
trySetItemOnce(st, key, text, accepted) ==
    IF accepted /\ key \notin DOMAIN st THEN setItem(st, key, text) ELSE st

\* setItem in a try block: the write happens unless the storage refuses it
trySetItem(st, key, text, accepted) == IF accepted THEN setItem(st, key, text) ELSE st

(***************************************************************************)
(* components/ProfileCapture.tsx                                            *)
(***************************************************************************)
\* longest text typed into the age field
MaxAgeLen == 3
\* the longest model response text, in tokens
MaxTokens == 5

\* the characters typed into the age field
AgeChars == {"0", "1", "8", "x"}

\* the value of a decimal digit
DigitValue(ch) ==
    CASE ch = "0" -> 0
      [] ch = "1" -> 1
      [] ch = "8" -> 8

\* /^\d+$/.test(value)
IsDigits(value) == Len(value) > 0 /\ \A i \in 1..Len(value) : value[i] \in {"0", "1", "8"}

\* parseInt of a string of digits
RECURSIVE ParseInt(_)
ParseInt(value) ==
    IF Len(value) = 0 THEN 0
    ELSE 10 * ParseInt(SubSeq(value, 1, Len(value) - 1)) + DigitValue(value[Len(value)])

\* the texts the age field is offered
AgeInputs == UNION {[1..n -> AgeChars] : n \in 0..MaxAgeLen}

GenderValues == {"female", "prefer-not-to-say"}
GoalIds == {"better-sleep", "weight-loss"}

\* the useState initial values of ProfileCapture
FreshForm == [age |-> <<>>, gender |-> "", selectedGoals |-> <<>>, errors |-> {}]

\* handleAgeChange: the new age text
handleAgeChange(f, value) ==
    IF value = <<>> \/ (IsDigits(value) /\ ParseInt(value) > 0 /\ ParseInt(value) <= 120)
    THEN [f EXCEPT !.age = value, !.errors = @ \ {"age"}]
    ELSE f

\* handleGenderChange
handleGenderChange(f, value) == [f EXCEPT !.gender = value, !.errors = @ \ {"gender"}]

\* handleGoalToggle: the clicked goal is deselected, or becomes the only goal
handleGoalToggle(f, goalId) ==
    LET isSelected == \E i \in 1..Len(f.selectedGoals) : f.selectedGoals[i] = goalId
        newGoals == IF isSelected THEN <<>> ELSE <<goalId>>
    IN [f EXCEPT !.selectedGoals = newGoals,
                 !.errors = IF newGoals # <<>> THEN @ \ {"goals"} ELSE @]

\* a validation that takes any age the field holds
validateFormAnyAge(f) ==
    (IF f.age = <<>> THEN {"age"} ELSE {})
    \cup (IF f.gender = "" THEN {"gender"} ELSE {})
    \cup (IF Len(f.selectedGoals) = 0 THEN {"goals"} ELSE {})

\* validateForm: the fields in error
validateForm(f) ==
    (IF f.age = <<>> \/ ParseInt(f.age) < 10 \/ ParseInt(f.age) > 80 THEN {"age"} ELSE {})
    \cup (IF f.gender = "" THEN {"gender"} ELSE {})
    \cup (IF Len(f.selectedGoals) = 0 THEN {"goals"} ELSE {})

\* the profileData handleSubmit builds
ProfileData(f) ==
    [kind |-> "object", age |-> ParseInt(f.age), gender |-> f.gender, goals |-> f.selectedGoals]

(***************************************************************************)
(* Inputs.                                                                  *)
(***************************************************************************)
GOAL_LABELS(goalId) ==
    CASE goalId = "weight-loss" -> "weight loss"
      [] goalId = "better-sleep" -> "better sleep"
      [] OTHER -> goalId

\* the profiles the form is submitted with
Profiles ==
    {[kind |-> "object", age |-> a, gender |-> "female", goals |-> <<g>>] :
        a \in {25}, g \in {"better-sleep"}}
    \cup {[kind |-> "object", age |-> 30, gender |-> "female", goals |-> <<"weight-loss">>]}

ListOne == Window(1, 2)
ListTwo == Window(2, 1)

\* what a list request of the board is answered with
ListResponses ==
    {[kind |-> "reject", msg |-> "Failed to fetch"],
     [kind |-> "status", status |-> "429", statusText |-> "Too Many Requests", msg |-> "quota exceeded"],
     [kind |-> "ok", text |-> RawText(FALSE, JsonArray(ListOne))],
     [kind |-> "ok", text |-> RawText(TRUE, JsonArray(ListTwo))]}

\* cache entries an earlier session may have left under a tip-list key
LeftOverTexts ==
    {RawText(FALSE, Garbage), RawText(FALSE, JsonObject), RawText(FALSE, JsonArray(<<>>)),
     RawText(FALSE, JsonArray(ListTwo))}

NoObs == [op |-> "none"]
Idle == [pc |-> "idle"]

\* most promises of one kind awaited at a time
MaxInFlight == 1

\* most list promises pending where an unmounted board's promises overlap with
\* those of the board mounted after it
MaxPending == 2

(***************************************************************************)
(* components/TipsBoard.tsx: the tip list                                   *)
(***************************************************************************)
\* the state a TipsBoard starts with (the useState initial values)
FreshBoard ==
    [goalLabel |-> "", tips |-> <<>>, loading |-> FALSE, error |-> Null,
     selectedTip |-> Null, detail |-> Null, detailLoading |-> FALSE, detailError |-> Null]

Board ==
    [goalLabel |-> goalLabel, tips |-> tips, loading |-> loading, error |-> error,
     selectedTip |-> selectedTip, detail |-> detail, detailLoading |-> detailLoading,
     detailError |-> detailError]

SetBoard(b) ==
    /\ goalLabel' = b.goalLabel
    /\ tips' = b.tips
    /\ loading' = b.loading
    /\ error' = b.error
    /\ selectedTip' = b.selectedTip
    /\ detail' = b.detail
    /\ detailLoading' = b.detailLoading
    /\ detailError' = b.detailError

\* an error state without a text
MessageBlank(e, fallback) == [kind |-> "message", msg |-> <<"">>]

\* setError(err instanceof Error ? err.message : fallback)
Message(e, fallback) == [kind |-> "message", msg |-> IF IsErrorInstance(e) THEN e.msg ELSE fallback]

\* the stored profile, when loadTips gets as far as using it
StoredProfile(st) ==
    LET stored == getItem(st, ProfileKey) IN
    IF stored = Null THEN Fail(Err("none", <<>>))
    ELSE LET parsed == JsonParse(stored) IN
         IF ~parsed.ok THEN parsed
         ELSE IF Len(parsed.value.goals) = 0 THEN Fail(Err("none", <<>>))
         ELSE Ok(parsed.value)

ProfileAge(profile) == IF "age" \in DOMAIN profile THEN profile.age ELSE DefaultAge

\* the cache key loadTips computes from the stored profile
ProfileTipsKey(profile) == TipsKey(GOAL_LABELS(profile.goals[1]), ProfileAge(profile))

\* a cache check that takes any array
IsCacheHitAnyArray(cached) ==
    /\ cached # Null
    /\ JsonParse(cached).ok
    /\ JsonParse(cached).value.kind = "array"

\* a cache check that never finds a list
IsCacheHitNever(cached) == FALSE

\* loadTips: the cached text hydrates the list
IsCacheHit(cached) ==
    /\ cached # Null
    /\ JsonParse(cached).ok
    /\ JsonParse(cached).value.kind = "array"
    /\ Len(JsonParse(cached).value.items) > 0

\* handlers that cache an empty list when the request failed
ListSettledCachesFailure(r, c, st, b, accepted) ==
    LET shown == IF c.outcome.ok
                 THEN [b EXCEPT !.tips = c.outcome.value, !.error = Null]
                 ELSE [b EXCEPT !.error =
                          Message(c.outcome.error,
                                  <<"Unable to load AI tips right now. Please try again later.">>)]
    IN [store |-> trySetItem(st, r.key,
                             JsonStringify(JsonArray(IF c.outcome.ok THEN c.outcome.value ELSE <<>>)),
                             accepted),
        board |-> IF r.live THEN [shown EXCEPT !.loading = FALSE] ELSE b]

\* a then-handler that shows the list and leaves the storage alone
ListSettledUnstored(r, c, st, b, accepted) ==
    LET shown == IF c.outcome.ok
                 THEN [b EXCEPT !.tips = c.outcome.value, !.error = Null]
                 ELSE [b EXCEPT !.error =
                          Message(c.outcome.error,
                                  <<"Unable to load AI tips right now. Please try again later.">>)]
    IN [store |-> st,
        board |-> IF r.live THEN [shown EXCEPT !.loading = FALSE] ELSE b]

\* a then-handler that stores only the first tip of the list
ListSettledFirstOnly(r, c, st, b, accepted) ==
    LET shown == IF c.outcome.ok
                 THEN [b EXCEPT !.tips = c.outcome.value, !.error = Null]
                 ELSE [b EXCEPT !.error =
                          Message(c.outcome.error,
                                  <<"Unable to load AI tips right now. Please try again later.">>)]
    IN [store |-> IF c.outcome.ok
                  THEN trySetItem(st, r.key, JsonStringify(JsonArray(SubSeq(c.outcome.value, 1, 1))), accepted)
                  ELSE st,
        board |-> IF r.live THEN [shown EXCEPT !.loading = FALSE] ELSE b]

\* handlers without the .finally that resets loading
ListSettledStillLoading(r, c, st, b, accepted) ==
    [store |-> IF c.outcome.ok /\ Len(c.outcome.value) > 0
               THEN trySetItem(st, r.key, JsonStringify(JsonArray(c.outcome.value)), accepted)
               ELSE st,
     board |-> IF ~r.live THEN b
               ELSE IF c.outcome.ok /\ Len(c.outcome.value) > 0
               THEN [b EXCEPT !.tips = c.outcome.value, !.error = Null]
               ELSE [b EXCEPT !.error =
                        Message(c.outcome.error,
                                <<"Unable to load AI tips right now. Please try again later.">>)]]

\* the .then / .catch / .finally handlers of loadTips, run when the promise of
\* request r settled with call state c: the new store and board
ListSettled(r, c, st, b, accepted) ==
    LET generated == c.outcome.ok /\ Len(c.outcome.value) > 0
        shown == IF generated
                 THEN [b EXCEPT !.tips = c.outcome.value, !.error = Null]
                 ELSE IF c.outcome.ok
                 THEN [b EXCEPT !.error =
                          [kind |-> "message",
                           msg |-> <<"No tips were generated. Please try regenerating.">>]]
                 ELSE [b EXCEPT !.error =
                          Message(c.outcome.error,
                                  <<"Unable to load AI tips right now. Please try again later.">>)]
    IN [store |-> IF generated
                  THEN trySetItem(st, r.key, JsonStringify(JsonArray(c.outcome.value)), accepted)
                  ELSE st,
        board |-> IF r.live THEN [shown EXCEPT !.loading = FALSE] ELSE b]

\* loadTips(useCache), run against store st and board b with the promises reqs
\* pending: the new store, board and promises, and what the call did
loadTips(useCache, st, b, reqs) ==
    LET profile == StoredProfile(st) IN
    IF ~profile.ok
    THEN [store |-> st, board |-> b, reqs |-> reqs,
          did |-> [ran |-> FALSE, useCache |-> useCache]]
    ELSE
    LET label == GOAL_LABELS(profile.value.goals[1])
        age == ProfileAge(profile.value)
        cacheKey == TipsKey(label, age)
        cached == getItem(st, cacheKey)
        labelled == [b EXCEPT !.goalLabel = label]
    IN
    IF useCache /\ IsCacheHit(cached)
    THEN [store |-> st, board |-> [labelled EXCEPT !.tips = JsonParse(cached).value.items],
          reqs |-> reqs,
          did |-> [ran |-> TRUE, useCache |-> useCache, key |-> cacheKey, cached |-> cached,
                   hit |-> TRUE, http |-> 0, call |-> Idle]]
    ELSE
    LET cleared == IF useCache THEN st ELSE removeItem(st, cacheKey)
        c == StartCall("tips", apiKey)
        r == [call |-> c, key |-> cacheKey, live |-> TRUE, force |-> ~useCache, tracked |-> useCache,
              args |-> [goalLabel |-> label, age |-> age]]
        waiting == [labelled EXCEPT !.loading = TRUE, !.error = Null]
        did == [ran |-> TRUE, useCache |-> useCache, key |-> cacheKey, cached |-> cached,
                hit |-> FALSE, http |-> c.http, call |-> c]
    IN
    IF c.pc = "done"
    THEN LET settled == ListSettled(r, c, cleared, waiting, TRUE) IN
         [store |-> settled.store, board |-> settled.board, reqs |-> reqs, did |-> did]
    ELSE [store |-> cleared, board |-> waiting, reqs |-> Append(reqs, r), did |-> did]

\* the component was unmounted: the handlers of its promises still run, but
\* their state updates are dropped
Unmounted(reqs) == [i \in 1..Len(reqs) |-> [reqs[i] EXCEPT !.live = FALSE]]

Untracked(reqs) == [i \in 1..Len(reqs) |-> [reqs[i] EXCEPT !.tracked = FALSE]]

RemoveAt(seq, i) == SubSeq(seq, 1, i - 1) \o SubSeq(seq, i + 1, Len(seq))

Last(seq) == seq[Len(seq)]

\* the record of one loadTips(true) call kept in calls
CallRecord(did, board) ==
    [key |-> did.key, hit |-> did.hit, http |-> did.http,
     done |-> did.hit \/ did.call.pc = "done",
     ok |-> did.hit,
     wrote |-> FALSE,
     value |-> IF did.hit THEN board.tips ELSE <<>>]

\* calls after a loadTips call that did `did`
CallsAfter(did, board) ==
    IF ~did.ran \/ ~did.useCache THEN <<>>
    ELSE IF calls # <<>> /\ Last(calls).done /\ Last(calls).key = did.key
         THEN <<Last(calls), CallRecord(did, board)>>
         ELSE <<CallRecord(did, board)>>

\* a step that runs loadTips(useCache) against store st and board b, then shows
\* `path`, while fewer than cap promises are pending
LoadTipsUpTo(cap, op, useCache, st, b, reqs, path) ==
    LET r == loadTips(useCache, st, b, Untracked(reqs)) IN
    /\ Len(reqs) < cap
    /\ store' = r.store
    /\ SetBoard(r.board)
    /\ listReqs' = r.reqs
    /\ route' = path
    /\ tipId' = ""
    /\ obs' = [op |-> op, did |-> r.did]
    /\ calls' = CallsAfter(r.did, r.board)

RunLoadTips(op, useCache, st, b, reqs, path) ==
    LoadTipsUpTo(MaxInFlight, op, useCache, st, b, reqs, path)

\* ProfileCapture.handleSubmit with a valid form: App.handleProfileComplete
\* stores the profile, navigate('/board') mounts the board, whose effect runs
\* loadTips(true)
SubmitProfile(p, accepted) ==
    /\ route = "/"
    /\ RunLoadTips("submitProfile", TRUE,
                   trySetItem(store, ProfileKey, JsonStringify(p), accepted),
                   FreshBoard, Unmounted(listReqs), "/board")
    /\ form' = FreshForm
    /\ UNCHANGED <<apiKey, tipsData, now, savedTips, detailReqs, call>>

\* typing `value` into the age field
AgeChange(value) ==
    /\ route = "/"
    /\ form' = handleAgeChange(form, value)
    /\ obs' = [op |-> "ageChange"]
    /\ UNCHANGED <<apiKey, tipsData, store, now, route, tipId, boardVars, savedTips, listReqs, detailReqs, call, calls>>

\* choosing a gender
GenderChange(value) ==
    /\ route = "/"
    /\ form' = handleGenderChange(form, value)
    /\ obs' = [op |-> "genderChange"]
    /\ UNCHANGED <<apiKey, tipsData, store, now, route, tipId, boardVars, savedTips, listReqs, detailReqs, call, calls>>

\* clicking a goal card
GoalToggle(goalId) ==
    /\ route = "/"
    /\ form' = handleGoalToggle(form, goalId)
    /\ obs' = [op |-> "goalToggle"]
    /\ UNCHANGED <<apiKey, tipsData, store, now, route, tipId, boardVars, savedTips, listReqs, detailReqs, call, calls>>

\* handleSubmit: a form that passes validateForm is handed to onComplete and the
\* board is shown; any other form gets its errors and nothing else happens
\*   obs.store   the store before a rejected submit
HandleSubmit(accepted) ==
    /\ route = "/"
    /\ IF validateForm(form) = {}
       THEN SubmitProfile(ProfileData(form), accepted)
       ELSE /\ form' = [form EXCEPT !.errors = validateForm(form)]
            /\ obs' = [op |-> "submitRejected", store |-> store]
            /\ UNCHANGED <<apiKey, tipsData, store, now, route, tipId, boardVars, savedTips, listReqs,
                           detailReqs, call, calls>>

\* SavedTipsBoard, the effect on [savedTips]: the ids of the tips of the list
\* cached for the stored profile, as far as loadSavedTips gets
loadSavedTips(st) ==
    LET profile == StoredProfile(st) IN
    IF ~profile.ok THEN {}
    ELSE LET cached == getItem(st, ProfileTipsKey(profile.value)) IN
         IF cached = Null \/ ~JsonParse(cached).ok \/ JsonParse(cached).value.kind # "array"
         THEN {}
         ELSE {JsonParse(cached).value.items[i].id : i \in 1..Len(JsonParse(cached).value.items)}

\* SavedTipsBoard: savedTips.filter((saved) => tipsData[saved.tipId])
availableSavedTips(saved, data) == SelectSeq(saved, LAMBDA t : t.tipId \in data)

\* a Saved button that leaves the board mounted
GoSavedMounted ==
    /\ route = "/board"
    /\ selectedTip = Null
    /\ route' = "/board/saved"
    /\ tipId' = ""
    /\ obs' = [op |-> "goSaved"]
    /\ tipsData' = loadSavedTips(store)
    /\ UNCHANGED <<apiKey, form, store, now, boardVars, savedTips, listReqs, detailReqs, call, calls>>

\* the "Saved" button of the list view: navigate('/board/saved') unmounts the board
GoSaved ==
    /\ route = "/board"
    /\ selectedTip = Null
    /\ route' = "/board/saved"
    /\ tipId' = ""
    /\ SetBoard(FreshBoard)
    /\ listReqs' = Unmounted(listReqs)
    /\ detailReqs' = Unmounted(detailReqs)
    /\ obs' = [op |-> "goSaved"]
    /\ tipsData' = loadSavedTips(store)
    /\ UNCHANGED <<apiKey, form, store, now, savedTips, call, calls>>

\* the Back button of the saved board: navigate('/board') mounts a new board,
\* whatever promises of the board before it are still pending
BackToBoard(cap) ==
    /\ route = "/board/saved"
    /\ LoadTipsUpTo(cap, "mount", TRUE, store, FreshBoard, listReqs, "/board")
    /\ tipsData' = {}
    /\ UNCHANGED <<apiKey, form, now, savedTips, detailReqs, call>>

SavedBack == BackToBoard(MaxInFlight)

\* the Regenerate button: shown in the list view, disabled while loading
Regenerate ==
    /\ route = "/board"
    /\ selectedTip = Null
    /\ ~loading
    /\ RunLoadTips("regenerate", FALSE, store, Board, listReqs, "/board")
    /\ UNCHANGED <<apiKey, tipsData, form, now, savedTips, detailReqs, call>>

\* the Try Again button of the list view: shown when error && !loading
TryAgain ==
    /\ route = "/board"
    /\ selectedTip = Null
    /\ error # Null
    /\ ~loading
    /\ RunLoadTips("tryAgain", FALSE, store, Board, listReqs, "/board")
    /\ UNCHANGED <<apiKey, tipsData, form, now, savedTips, detailReqs, call>>

\* calls after request r made progress to call state c
CallsProgress(r, c, accepted) ==
    IF r.tracked
    THEN [calls EXCEPT ![Len(calls)] =
            [@ EXCEPT !.http = c.http, !.done = c.pc = "done", !.ok = c.outcome.ok,
                      !.wrote = c.outcome.ok /\ accepted,
                      !.value = IF c.outcome.ok THEN c.outcome.value ELSE <<>>]]
    ELSE IF c.pc = "done" /\ c.outcome.ok /\ accepted /\ calls # <<>>
            /\ Last(calls).key = r.key /\ Last(calls).done
         THEN <<>>
         ELSE calls

\* the HTTP request of list request i is answered with resp; accepted: the
\* storage takes the cache write
ListResponse(i, resp, accepted) ==
    /\ i \in 1..Len(listReqs)
    /\ listReqs[i].call.pc = "http"
    /\ LET r == listReqs[i]
           c == OnResponse(r.call, resp)
       IN IF c.pc = "done"
          THEN LET settled == ListSettled(r, c, store, Board, accepted) IN
               /\ store' = settled.store
               /\ SetBoard(settled.board)
               /\ listReqs' = RemoveAt(listReqs, i)
               /\ obs' = [op |-> "listSettled", req |-> [r EXCEPT !.call = c], accepted |-> accepted]
               /\ calls' = CallsProgress(r, c, accepted)
          ELSE /\ accepted
               /\ listReqs' = [listReqs EXCEPT ![i].call = c]
               /\ obs' = [op |-> "listAttemptFailed", req |-> [r EXCEPT !.call = c]]
               /\ calls' = CallsProgress(r, c, accepted)
               /\ UNCHANGED <<store, boardVars>>
    /\ UNCHANGED <<apiKey, tipsData, form, now, route, tipId, savedTips, detailReqs, call>>

\* the retry timer of list request i fires: the second HTTP request is issued
ListDelay(i) ==
    /\ i \in 1..Len(listReqs)
    /\ listReqs[i].call.pc = "delay"
    /\ LET c == OnDelay(listReqs[i].call) IN
       /\ listReqs' = [listReqs EXCEPT ![i].call = c]
       /\ obs' = [op |-> "listRetry", req |-> [listReqs[i] EXCEPT !.call = c]]
       /\ calls' = CallsProgress(listReqs[i], c, TRUE)
    /\ UNCHANGED <<apiKey, tipsData, form, store, now, route, tipId, boardVars, savedTips, detailReqs, call>>

(***************************************************************************)
(* contexts/SavedTipsContext.tsx                                            *)
(***************************************************************************)
SavedTip(id, label, age, at) == [tipId |-> id, goalLabel |-> label, age |-> age, savedAt |-> at]

\* a membership test that looks at the last saved tip only
SomeSavedLast(prev, id) == prev # <<>> /\ prev[Len(prev)].tipId = id

\* prev.some((t) => t.tipId === tipId)
SomeSaved(prev, id) == \E i \in 1..Len(prev) : prev[i].tipId = id

\* a filter that keeps only the tip to remove
FilterOutOthers(prev, id) == SelectSeq(prev, LAMBDA t : t.tipId = id)

\* prev.filter((t) => t.tipId !== tipId)
FilterOut(prev, id) == SelectSeq(prev, LAMBDA t : t.tipId # id)

\* the effect of SavedTipsProvider on mount: the saved tips read from the store
InitRegistry(st) ==
    LET stored == getItem(st, STORAGE_KEY) IN
    IF stored = Null THEN <<>>
    ELSE LET parsed == JsonParse(stored) IN
         IF parsed.ok /\ parsed.value.kind = "array" THEN parsed.value.items ELSE <<>>

\* a save that appends without looking for the tip
saveTipAlways(prev, id, label, age, at) ==
    [saved |-> Append(prev, SavedTip(id, label, age, at)), persist |-> TRUE]

\* saveTip: the new saved tips, and whether they are written to the store
saveTip(prev, id, label, age, at) ==
    IF SomeSaved(prev, id)
    THEN [saved |-> prev, persist |-> FALSE]
    ELSE [saved |-> Append(prev, SavedTip(id, label, age, at)), persist |-> TRUE]

\* a removal that keeps its result in memory only
removeTipUnwritten(prev, id) == [saved |-> FilterOut(prev, id), persist |-> FALSE]

\* removeTip: the new saved tips, always written to the store
removeTip(prev, id) == [saved |-> FilterOut(prev, id), persist |-> TRUE]

\* the store after the setSavedTips updater ran
Persisted(st, r, accepted) ==
    IF r.persist THEN trySetItem(st, STORAGE_KEY, JsonStringify(JsonArray(r.saved)), accepted) ELSE st

(***************************************************************************)
(* Logout and page load.                                                    *)
(***************************************************************************)
\* key.startsWith('tips:') || key.startsWith('tipDetail:')
IsCacheKey(key) == key[1] \in {"tips:", "tipDetail:"}

\* the localStorage part of handleLogout
LoggedOut(st) ==
    LET kept == {k \in DOMAIN st : k # ProfileKey /\ k # STORAGE_KEY /\ ~IsCacheKey(k)} IN
    [k \in kept |-> st[k]]

\* handleLogout: the Logout button of the list view
Logout ==
    /\ route = "/board"
    /\ selectedTip = Null
    /\ store' = LoggedOut(store)
    /\ route' = "/"
    /\ tipId' = ""
    /\ SetBoard(FreshBoard)
    /\ listReqs' = Untracked(Unmounted(listReqs))
    /\ detailReqs' = Unmounted(detailReqs)
    /\ obs' = [op |-> "logout"]
    /\ calls' = <<>>
    /\ form' = FreshForm
    /\ UNCHANGED <<apiKey, tipsData, now, savedTips, call>>

\* the page is loaded at `path`: script state starts over, pending requests are
\* gone with the old page, the registry reads the store, a board runs loadTips(true)
Reload(path) ==
    /\ savedTips' = InitRegistry(store)
    /\ detailReqs' = <<>>
    /\ IF path = "/board"
       THEN RunLoadTips("reload", TRUE, store, FreshBoard, <<>>, path)
       ELSE /\ route' = path
            /\ tipId' = ""
            /\ SetBoard(FreshBoard)
            /\ listReqs' = <<>>
            /\ obs' = [op |-> "pageLoad"]
            /\ UNCHANGED <<store, calls>>
    /\ form' = FreshForm
    /\ tipsData' = (IF path = "/board/saved" THEN loadSavedTips(store) ELSE {})
    /\ UNCHANGED <<apiKey, now, call>>

(***************************************************************************)
(* components/TipsBoard.tsx: the tip detail and the save toggle            *)
(***************************************************************************)
\* the age loadTipDetail and handleSaveTip read from the stored profile
StoredAge(st) ==
    LET stored == getItem(st, ProfileKey) IN
    IF stored = Null THEN DefaultAge
    ELSE LET parsed == JsonParse(stored) IN
         IF parsed.ok THEN ProfileAge(parsed.value) ELSE DefaultAge

\* handlers that store the detail under the key of the tip selected when the
\* response arrives
DetailSettledUnderSelected(r, c, st, b, accepted) ==
    LET key == IF b.selectedTip = Null THEN r.key
               ELSE DetailKey(b.goalLabel, b.selectedTip.id, r.args.age)
    IN [store |-> IF c.outcome.ok
                  THEN trySetItem(st, key, JsonStringify(c.outcome.value), accepted)
                  ELSE st,
        board |-> IF r.live
                  THEN [b EXCEPT !.detail = IF c.outcome.ok THEN c.outcome.value ELSE @,
                                 !.detailError =
                                     IF c.outcome.ok THEN Null
                                     ELSE Message(c.outcome.error,
                                                  <<"Unable to load details for this tip. Please try again.">>),
                                 !.detailLoading = FALSE]
                  ELSE b]

\* handlers that apply the outcome only while the tip of the request is selected
DetailSettledIfSelected(r, c, st, b, accepted) ==
    [store |-> IF c.outcome.ok
               THEN trySetItem(st, r.key, JsonStringify(c.outcome.value), accepted)
               ELSE st,
     board |-> IF r.live /\ b.selectedTip # Null /\ b.selectedTip.id = r.key[4]
               THEN [b EXCEPT !.detail = IF c.outcome.ok THEN c.outcome.value ELSE @,
                              !.detailError =
                                  IF c.outcome.ok THEN Null
                                  ELSE Message(c.outcome.error,
                                               <<"Unable to load details for this tip. Please try again.">>),
                              !.detailLoading = FALSE]
               ELSE b]

\* the try / catch / finally around await fetchGeminiDetail in loadTipDetail
DetailSettled(r, c, st, b, accepted) ==
    LET shown == IF c.outcome.ok
                 THEN [b EXCEPT !.detail = c.outcome.value, !.detailError = Null]
                 ELSE [b EXCEPT !.detailError =
                          Message(c.outcome.error,
                                  <<"Unable to load details for this tip. Please try again.">>)]
    IN [store |-> IF c.outcome.ok
                  THEN trySetItem(st, r.key, JsonStringify(c.outcome.value), accepted)
                  ELSE st,
        board |-> IF r.live THEN [shown EXCEPT !.detailLoading = FALSE] ELSE b]

\* loadTipDetail(tip) against store st and board b with the promises reqs pending
loadTipDetail(tip, st, b, reqs) ==
    IF b.goalLabel = ""
    THEN [store |-> st, board |-> b, reqs |-> reqs, did |-> [ran |-> FALSE]]
    ELSE
    LET age == StoredAge(st)
        cacheKey == DetailKey(b.goalLabel, tip.id, age)
        cached == getItem(st, cacheKey)
        selected == [b EXCEPT !.selectedTip = tip, !.detail = Null, !.detailError = Null]
    IN
    IF cached # Null /\ JsonParse(cached).ok
    THEN [store |-> st, board |-> [selected EXCEPT !.detail = JsonParse(cached).value],
          reqs |-> reqs,
          did |-> [ran |-> TRUE, key |-> cacheKey, cached |-> cached, hit |-> TRUE,
                   http |-> 0, call |-> Idle]]
    ELSE
    LET c == StartCall("detail", apiKey)
        r == [call |-> c, key |-> cacheKey, live |-> TRUE, tip |-> tip,
              args |-> [goalLabel |-> b.goalLabel, tipTitle |-> tip.title, age |-> age]]
        waiting == [selected EXCEPT !.detailLoading = TRUE]
        did == [ran |-> TRUE, key |-> cacheKey, cached |-> cached, hit |-> FALSE,
                http |-> c.http, call |-> c]
    IN
    IF c.pc = "done"
    THEN LET settled == DetailSettled(r, c, st, waiting, TRUE) IN
         [store |-> settled.store, board |-> settled.board, reqs |-> reqs, did |-> did]
    ELSE [store |-> st, board |-> waiting, reqs |-> Append(reqs, r), did |-> did]

\* a step that runs loadTipDetail(tip) on the mounted board
RunLoadTipDetail(op, tip) ==
    LET r == loadTipDetail(tip, store, Board, detailReqs) IN
    /\ Len(r.reqs) <= MaxInFlight
    /\ store' = r.store
    /\ SetBoard(r.board)
    /\ detailReqs' = r.reqs
    /\ route' = "/board/:tipId"
    /\ tipId' = tip.id
    /\ obs' = [op |-> op, did |-> r.did]

\* handleTipClick on a card of the list view (cards show when !loading && !error):
\* navigate(`/board/${tip.id}`), then the effect on [tipId, goalLabel, tips]
\* finds the tip and calls loadTipDetail
TipClick(i) ==
    /\ route = "/board"
    /\ selectedTip = Null
    /\ ~loading
    /\ error = Null
    /\ goalLabel # ""
    /\ i \in 1..Len(tips)
    /\ LET found == CHOOSE j \in 1..Len(tips) :
                        /\ tips[j].id = tips[i].id
                        /\ \A k \in 1..(j - 1) : tips[k].id # tips[i].id
       IN RunLoadTipDetail("tipClick", tips[found])
    /\ UNCHANGED <<apiKey, tipsData, form, now, savedTips, listReqs, call, calls>>

\* handleBackFromDetail
BackFromDetail ==
    /\ selectedTip # Null
    /\ selectedTip' = Null
    /\ detail' = Null
    /\ detailError' = Null
    /\ route' = "/board"
    /\ tipId' = ""
    /\ obs' = [op |-> "back"]
    /\ UNCHANGED <<apiKey, tipsData, form, store, now, goalLabel, tips, loading, error, detailLoading,
                   savedTips, listReqs, detailReqs, call, calls>>

\* handleRetryDetail: the Try Again button of the detail view (error && !loading)
RetryDetail ==
    /\ selectedTip # Null
    /\ detailError # Null
    /\ ~detailLoading
    /\ RunLoadTipDetail("retryDetail", selectedTip)
    /\ UNCHANGED <<apiKey, tipsData, form, now, savedTips, listReqs, call, calls>>

\* the HTTP request of detail request i is answered with resp
DetailResponse(i, resp, accepted) ==
    /\ i \in 1..Len(detailReqs)
    /\ detailReqs[i].call.pc = "http"
    /\ LET r == detailReqs[i]
           c == OnResponse(r.call, resp)
       IN IF c.pc = "done"
          THEN LET settled == DetailSettled(r, c, store, Board, accepted) IN
               /\ store' = settled.store
               /\ SetBoard(settled.board)
               /\ detailReqs' = RemoveAt(detailReqs, i)
               /\ obs' = [op |-> "detailSettled", req |-> [r EXCEPT !.call = c], accepted |-> accepted]
          ELSE /\ accepted
               /\ detailReqs' = [detailReqs EXCEPT ![i].call = c]
               /\ obs' = [op |-> "detailAttemptFailed", req |-> [r EXCEPT !.call = c]]
               /\ UNCHANGED <<store, boardVars>>
    /\ UNCHANGED <<apiKey, tipsData, form, now, route, tipId, savedTips, listReqs, call, calls>>

\* the retry timer of detail request i fires
DetailDelay(i) ==
    /\ i \in 1..Len(detailReqs)
    /\ detailReqs[i].call.pc = "delay"
    /\ LET c == OnDelay(detailReqs[i].call) IN
       /\ detailReqs' = [detailReqs EXCEPT ![i].call = c]
       /\ obs' = [op |-> "detailRetry", req |-> [detailReqs[i] EXCEPT !.call = c]]
    /\ UNCHANGED <<apiKey, tipsData, form, store, now, route, tipId, boardVars, savedTips, listReqs, call, calls>>

\* the step before this one was saveTip(id, ...)
JustSaved(id) == obs.op = "saveTip" /\ obs.tipId = id

\* the context's saveTip(tipId, goalLabel, age)
\*   obs.before, obs.storedBefore   the saved tips and their stored text before the call
\*   obs.again                      the step before was saveTip of the same tipId
\*   obs.failed                     the call's setItem threw
SaveTip(id, label, age, accepted) ==
    LET r == saveTip(savedTips, id, label, age, now) IN
    /\ savedTips' = r.saved
    /\ store' = Persisted(store, r, accepted)
    /\ obs' = [op |-> "saveTip", tipId |-> id, was |-> SomeSaved(savedTips, id),
               before |-> savedTips, storedBefore |-> getItem(store, STORAGE_KEY),
               again |-> JustSaved(id), failed |-> r.persist /\ ~accepted]
    /\ UNCHANGED <<apiKey, tipsData, form, now, route, tipId, boardVars, listReqs, detailReqs, call, calls>>

\* the context's removeTip(tipId)
\*   obs.afterSave   the step before was saveTip of the same tipId
\*   obs.saveWas     that saveTip found the tip already saved
\*   obs.preSave     the saved tips before that saveTip
RemoveTip(id, accepted) ==
    LET r == removeTip(savedTips, id) IN
    /\ savedTips' = r.saved
    /\ store' = Persisted(store, r, accepted)
    /\ obs' = [op |-> "removeTip", tipId |-> id, accepted |-> accepted,
               afterSave |-> JustSaved(id),
               saveWas |-> JustSaved(id) /\ obs.was,
               preSave |-> IF JustSaved(id) THEN obs.before ELSE <<>>]
    /\ UNCHANGED <<apiKey, tipsData, form, now, route, tipId, boardVars, listReqs, detailReqs, call, calls>>

\* handleSaveTip: the Save Tip / Unsave button of the detail view
HandleSaveTip(accepted) ==
    /\ selectedTip # Null
    /\ goalLabel # ""
    /\ IF SomeSaved(savedTips, selectedTip.id)
       THEN RemoveTip(selectedTip.id, accepted)
       ELSE SaveTip(selectedTip.id, goalLabel, StoredAge(store), accepted)

\* time passes
Tick ==
    /\ now < MaxClock
    /\ now' = now + 1
    /\ obs' = [op |-> "tick"]
    /\ UNCHANGED <<apiKey, tipsData, form, store, route, tipId, boardVars, savedTips, listReqs, detailReqs, call, calls>>

(***************************************************************************)
(* The tip list of the board, with the client it calls.                    *)
(***************************************************************************)
InitialStores ==
    {<<>>} \cup {setItem(<<>>, TipsKey("better sleep", 25), t) : t \in LeftOverTexts}

\* the state when the page is first loaded at "/", with one of `stores` in localStorage
InitWith(stores) ==
    /\ apiKey \in BOOLEAN
    /\ store \in stores
    /\ now = 0
    /\ route = "/"
    /\ tipId = ""
    /\ goalLabel = FreshBoard.goalLabel
    /\ tips = FreshBoard.tips
    /\ loading = FreshBoard.loading
    /\ error = FreshBoard.error
    /\ selectedTip = FreshBoard.selectedTip
    /\ detail = FreshBoard.detail
    /\ detailLoading = FreshBoard.detailLoading
    /\ detailError = FreshBoard.detailError
    /\ savedTips = <<>>
    /\ listReqs = <<>>
    /\ detailReqs = <<>>
    /\ call = Idle
    /\ form = FreshForm
    /\ tipsData = {}
    /\ obs = NoObs
    /\ calls = <<>>

Init == InitWith(InitialStores)

Next ==
    \/ \E p \in Profiles, accepted \in BOOLEAN : SubmitProfile(p, accepted)
    \/ GoSaved
    \/ SavedBack
    \/ Regenerate
    \/ TryAgain
    \/ \E i \in 1..MaxInFlight, resp \in ListResponses, accepted \in BOOLEAN :
            ListResponse(i, resp, accepted)
    \/ \E i \in 1..MaxInFlight : ListDelay(i)
    \/ Logout
    \/ \E path \in {"/", "/board", "/board/saved"} : Reload(path)

Spec == Init /\ [][Next]_vars

(***************************************************************************)
(* The client on its own: one call of fetchGeminiTips or fetchGeminiDetail *)
(* after another, each HTTP request answered with any response.            *)
(***************************************************************************)
ClientInvoke(fn) ==
    /\ call.pc \in {"idle", "done"}
    /\ call' = StartCall(fn, apiKey)
    /\ obs' = [op |-> "invoke"]
    /\ UNCHANGED <<apiKey, tipsData, form, store, now, route, tipId, boardVars, savedTips, listReqs, detailReqs, calls>>

ClientResponse(resp) ==
    /\ call.pc = "http"
    /\ resp \in Responses(call.fn)
    /\ call' = OnResponse(call, resp)
    /\ obs' = [op |-> "response", resp |-> resp]
    /\ UNCHANGED <<apiKey, tipsData, form, store, now, route, tipId, boardVars, savedTips, listReqs, detailReqs, calls>>

ClientDelay ==
    /\ call.pc = "delay"
    /\ call' = OnDelay(call)
    /\ obs' = [op |-> "delay"]
    /\ UNCHANGED <<apiKey, tipsData, form, store, now, route, tipId, boardVars, savedTips, listReqs, detailReqs, calls>>

InitClient == InitWith({<<>>})

NextClient ==
    \/ \E fn \in {"tips", "detail"} : ClientInvoke(fn)
    \/ \E resp \in Responses("tips") \cup Responses("detail") : ClientResponse(resp)
    \/ ClientDelay

SpecClient == InitClient /\ [][NextClient]_vars

(***************************************************************************)
(* The saved-tip registry with the board's save toggle, logout and page    *)
(* load; every request of the board succeeds at once.                      *)
(***************************************************************************)
\* the profile of the returning user
SleepProfile == [kind |-> "object", age |-> 25, gender |-> "female", goals |-> <<"better-sleep">>]

\* the arguments saveTip and removeTip are called with
TipIds == {ListOne[i].id : i \in 1..Len(ListOne)}
LabelsAndAges == {<<GOAL_LABELS(SleepProfile.goals[1]), SleepProfile.age>>}

\* the store a returning user starts with: the profile, its tip list and the
\* detail of every tip of the list are cached
ReturningStore ==
    LET label == GOAL_LABELS(SleepProfile.goals[1])
        withList == setItem(setItem(<<>>, ProfileKey, JsonStringify(SleepProfile)),
                            TipsKey(label, SleepProfile.age), JsonStringify(JsonArray(ListOne)))
    IN setItem(setItem(withList, DetailKey(label, ListOne[1].id, SleepProfile.age), JsonStringify(DetailOne)),
               DetailKey(label, ListOne[2].id, SleepProfile.age), JsonStringify(DetailTwo))

InitRegistrySpec ==
    /\ InitWith({ReturningStore})
    /\ apiKey

NextRegistry ==
    \/ \E path \in {"/", "/board"} : Reload(path)
    \/ \E i \in 1..Len(ListOne) : TipClick(i)
    \/ BackFromDetail
    \/ \E accepted \in BOOLEAN : HandleSaveTip(accepted)
    \/ \E id \in TipIds, la \in LabelsAndAges, accepted \in BOOLEAN : SaveTip(id, la[1], la[2], accepted)
    \/ \E id \in TipIds, accepted \in BOOLEAN : RemoveTip(id, accepted)
    \/ Logout
    \/ Tick

SpecRegistry == InitRegistrySpec /\ [][NextRegistry]_vars

(***************************************************************************)
(* The board of a build without an API key: no request is ever awaited.    *)
(***************************************************************************)
InitNoKey ==
    /\ InitWith(InitialStores)
    /\ ~apiKey

NextNoKey ==
    \/ \E p \in Profiles, accepted \in BOOLEAN : SubmitProfile(p, accepted)
    \/ GoSaved
    \/ SavedBack
    \/ Regenerate
    \/ TryAgain
    \/ \E i \in 1..Len(tips) : TipClick(i)
    \/ BackFromDetail
    \/ RetryDetail
    \/ Logout
    \/ \E path \in {"/", "/board", "/board/saved"} : Reload(path)

SpecNoKey == InitNoKey /\ [][NextNoKey]_vars

(***************************************************************************)
(* The profile form, in a build without an API key: a submitted profile    *)
(* shows the board, Logout shows the form again.                           *)
(***************************************************************************)
InitForm ==
    /\ InitWith({<<>>})
    /\ ~apiKey

NextForm ==
    \/ \E value \in AgeInputs : AgeChange(value)
    \/ \E value \in GenderValues : GenderChange(value)
    \/ \E goalId \in GoalIds : GoalToggle(goalId)
    \/ \E accepted \in BOOLEAN : HandleSubmit(accepted)
    \/ Logout

SpecForm == InitForm /\ [][NextForm]_vars

(***************************************************************************)
(* The saved board of a returning user who saves tips, regenerates the     *)
(* list and looks at the saved board.                                      *)
(***************************************************************************)
InitSaved ==
    /\ InitWith({ReturningStore})
    /\ apiKey

NextSaved ==
    \/ \E path \in {"/board", "/board/saved"} : Reload(path)
    \/ \E i \in 1..Len(tips) : TipClick(i)
    \/ BackFromDetail
    \/ \E accepted \in BOOLEAN : HandleSaveTip(accepted)
    \/ Regenerate
    \/ \E i \in 1..MaxInFlight, resp \in ListResponses, accepted \in BOOLEAN :
            ListResponse(i, resp, accepted)
    \/ \E i \in 1..MaxInFlight : ListDelay(i)
    \/ GoSaved
    \/ SavedBack

SpecSaved == InitSaved /\ [][NextSaved]_vars

(***************************************************************************)
(* The board of a returning user whose requests are answered by the        *)
(* network: the tip detail with its cache, and the regenerated list.       *)
(***************************************************************************)
\* what a detail request of the board is answered with
DetailResponses ==
    {[kind |-> "reject", msg |-> "Failed to fetch"],
     [kind |-> "status", status |-> "429", statusText |-> "Too Many Requests", msg |-> "quota exceeded"],
     [kind |-> "ok", text |-> RawText(FALSE, DetailOne)]}

\* what a list request of this board is answered with
RegenerateResponses ==
    {[kind |-> "status", status |-> "429", statusText |-> "Too Many Requests", msg |-> "quota exceeded"],
     [kind |-> "ok", text |-> RawText(FALSE, JsonArray(ListOne))]}

\* cache entries an earlier session may have left under a tip-detail key
LeftOverDetails ==
    {RawText(FALSE, Garbage), RawText(FALSE, TipDetailValue(Null, Null))}

\* the stores of the returning user: the profile and its list are cached, the
\* detail of the first tip is missing or left over
DetailStores ==
    LET label == GOAL_LABELS(SleepProfile.goals[1])
        withList == setItem(setItem(<<>>, ProfileKey, JsonStringify(SleepProfile)),
                            TipsKey(label, SleepProfile.age), JsonStringify(JsonArray(ListOne)))
    IN {withList}
       \cup {setItem(withList, DetailKey(label, ListOne[1].id, SleepProfile.age), t) :
                t \in LeftOverDetails}

InitDetail ==
    /\ InitWith(DetailStores)
    /\ apiKey

NextDetail ==
    \/ Reload("/board")
    \/ \E i \in 1..Len(tips) : TipClick(i)
    \/ BackFromDetail
    \/ RetryDetail
    \/ \E i \in 1..MaxInFlight, resp \in DetailResponses, accepted \in BOOLEAN :
            DetailResponse(i, resp, accepted)
    \/ \E i \in 1..MaxInFlight : DetailDelay(i)
    \/ Regenerate
    \/ TryAgain
    \/ \E i \in 1..MaxInFlight, resp \in RegenerateResponses, accepted \in BOOLEAN :
            ListResponse(i, resp, accepted)
    \/ \E i \in 1..MaxInFlight : ListDelay(i)

SpecDetail == InitDetail /\ [][NextDetail]_vars


(***************************************************************************)
(* The same board when the user also goes back to the profile form, with   *)
(* or without logging out, and submits another age and goal.               *)
(***************************************************************************)
\* the store of the returning user with the list cached
ProfilesStore == CHOOSE st \in DetailStores : Cardinality(DOMAIN st) = 2

\* the responses of an upstream that answers every request with a candidate
Answered(resps) == {r \in resps : r.kind = "ok"}

\* the build has an API key, or has none and every request fails at once
InitProfiles == InitWith({ProfilesStore})

NextProfiles ==
    \/ Reload("/")
    \/ \E p \in Profiles : SubmitProfile(p, TRUE)
    \/ Logout
    \/ \E i \in 1..Len(tips) : TipClick(i)
    \/ BackFromDetail
    \/ \E i \in 1..MaxInFlight, resp \in Answered(DetailResponses) : DetailResponse(i, resp, TRUE)
    \/ Regenerate
    \/ \E i \in 1..MaxInFlight, resp \in Answered(RegenerateResponses) : ListResponse(i, resp, TRUE)

SpecProfiles == InitProfiles /\ [][NextProfiles]_vars

\* The board when every HTTP request is answered in the end and every retry
\* timer fires: fetch() settles its promise and setTimeout runs its callback.
NextFair ==
    \/ Reload("/board")
    \/ \E i \in 1..Len(tips) : TipClick(i)
    \/ BackFromDetail
    \/ RetryDetail
    \/ \E i \in 1..MaxInFlight, resp \in DetailResponses : DetailResponse(i, resp, TRUE)
    \/ \E i \in 1..MaxInFlight : DetailDelay(i)
    \/ Regenerate
    \/ TryAgain
    \/ \E i \in 1..MaxInFlight, resp \in RegenerateResponses : ListResponse(i, resp, TRUE)
    \/ \E i \in 1..MaxInFlight : ListDelay(i)

SpecFair ==
    /\ InitProfiles
    /\ [][NextFair]_vars
    /\ \A i \in 1..MaxInFlight :
            /\ WF_vars(\E resp \in RegenerateResponses : ListResponse(i, resp, TRUE))
            /\ WF_vars(ListDelay(i))
            /\ WF_vars(\E resp \in DetailResponses : DetailResponse(i, resp, TRUE))
            /\ WF_vars(DetailDelay(i))

(***************************************************************************)
(* The tip list next to the Saved screen: the promises of a board that was *)
(* unmounted stay pending while the board mounted after it loads its list. *)
(***************************************************************************)
\* an answer with an empty array
NoTips == [kind |-> "ok", text |-> RawText(FALSE, JsonArray(<<>>))]

\* what a list request of these boards is answered with
BoardResponses == {r \in ListResponses : r.kind # "reject"} \cup {NoTips}

NextBoard ==
    \/ Reload("/board")
    \/ Regenerate
    \/ TryAgain
    \/ GoSaved
    \/ BackToBoard(MaxPending)
    \/ \E i \in 1..MaxPending, resp \in BoardResponses : ListResponse(i, resp, TRUE)
    \/ \E i \in 1..MaxPending : ListDelay(i)

SpecBoard == InitProfiles /\ [][NextBoard]_vars

(***************************************************************************)
(* extractJsonBlock on its own, applied to every text of up to MaxTokens    *)
(* tokens.                                                                   *)
(***************************************************************************)
RECURSIVE TextsOfLen(_)
TextsOfLen(n) ==
    IF n = 0 THEN {<<>>}
    ELSE {t \o tok : t \in TextsOfLen(n - 1), tok \in Tokens}

\* the texts the model may return
Texts == UNION {TextsOfLen(n) : n \in 0..MaxTokens}

InitFence ==
    /\ apiKey = TRUE
    /\ store = <<>>
    /\ now = 0
    /\ route = "/"
    /\ tipId = ""
    /\ goalLabel = FreshBoard.goalLabel
    /\ tips = FreshBoard.tips
    /\ loading = FreshBoard.loading
    /\ error = FreshBoard.error
    /\ selectedTip = FreshBoard.selectedTip
    /\ detail = FreshBoard.detail
    /\ detailLoading = FreshBoard.detailLoading
    /\ detailError = FreshBoard.detailError
    /\ savedTips = <<>>
    /\ listReqs = <<>>
    /\ detailReqs = <<>>
    /\ call \in {[pc |-> "text", text |-> t] : t \in Texts}
    /\ form = FreshForm
    /\ tipsData = {}
    /\ obs = NoObs
    /\ calls = <<>>

\* const jsonText = extractJsonBlock(text)
Extract ==
    /\ call.pc = "text"
    /\ call' = [pc |-> "extracted", text |-> call.text, jsonText |-> ExtractJsonBlock(call.text)]
    /\ obs' = [op |-> "extract"]
    /\ UNCHANGED <<apiKey, tipsData, form, store, now, route, tipId, boardVars, savedTips, listReqs, detailReqs, calls>>

NextFence == Extract

SpecFence == InitFence /\ [][NextFence]_vars

(***************************************************************************)
(* Properties.                                                              *)
(***************************************************************************)
\* the steps that ran loadTips / loadTipDetail
ListLoadOps == {"submitProfile", "mount", "reload", "regenerate", "tryAgain"}
ForceOps == {"regenerate", "tryAgain"}
DetailLoadOps == {"tipClick", "retryDetail"}

\* a stored text that parses to a non-empty array
NonEmptyArrayText(t) ==
    /\ t.kind = "text"
    /\ ~t.fenced
    /\ t.body.kind = "array"
    /\ Len(t.body.items) > 0

\* the error is a TypeError of a failed fetch
IsFetchTypeError(e) ==
    /\ e.type = "TypeError"
    /\ e.msg \in {<<"Failed to fetch">>, <<"NetworkError when attempting to fetch resource.">>}

\* C1: a call whose first attempt failed made exactly two HTTP requests; if the
\* second attempt succeeded the caller gets its result, and if it failed too the
\* caller gets the error of the second attempt (as the catch block passes it
\* on: a failed-fetch TypeError as the network error, any other error itself),
\* not the error of the first.
C1_RetryLaw ==
    (call.pc = "done" /\ call.entered /\ call.errs # <<>>) =>
        /\ call.http = 2
        /\ obs.op = "response"
        /\ IF Attempt(call.fn, obs.resp).ok
           THEN /\ call.outcome.ok
                /\ call.outcome = Attempt(call.fn, obs.resp)
                /\ Len(call.errs) = 1
           ELSE /\ ~call.outcome.ok
                /\ Len(call.errs) = 2
                /\ call.errs[2] = Attempt(call.fn, obs.resp).error
                /\ call.outcome.error =
                      IF IsFetchTypeError(call.errs[2]) THEN NetworkError ELSE call.errs[2]

\* both attempts failed, with different errors, and the caller got the second
C1_Witness ==
    /\ call.pc = "done"
    /\ Len(call.errs) = 2
    /\ call.errs[1] # call.errs[2]
    /\ call.outcome = Fail(call.errs[2])
    /\ call.http = 2

\* C2: loadTips(true) that finds a parseable non-empty array under the key
\* tips:<goalLabel>:<age> of the stored profile shows that array and issues no
\* HTTP request.
C2_CacheHitNoNetwork ==
    (obs.op \in ListLoadOps /\ obs.did.ran /\ obs.did.useCache /\ NonEmptyArrayText(obs.did.cached)) =>
        /\ obs.did.hit
        /\ obs.did.http = 0
        /\ obs.did.call = Idle
        /\ \A i \in 1..Len(listReqs) : ~listReqs[i].live
        /\ ~loading
        /\ tips = obs.did.cached.body.items
        /\ LET profile == JsonParse(getItem(store, ProfileKey)).value IN
           obs.did.key = <<"tips:", GOAL_LABELS(profile.goals[1]), ":", profile.age>>

\* the profile {age 25, goals [better-sleep]} hit the key tips:better sleep:25
C2_Witness ==
    /\ obs.op \in ListLoadOps
    /\ obs.did.ran
    /\ obs.did.hit
    /\ obs.did.key = <<"tips:", "better sleep", ":", 25>>
    /\ tips = ListOne
    /\ listReqs = <<>>

\* C3 (as amended): when loadTips(true) misses, its request succeeds and the
\* cache write is accepted, and nothing else rewrites the key, the next
\* loadTips(true) for the same key makes no HTTP request and shows the identical
\* list from the cache; the first call made one call of the client: one HTTP
\* request, or two when its first attempt failed and the retry succeeded.
C3_SecondCallFromCache ==
    (Len(calls) = 2 /\ ~calls[1].hit /\ calls[1].ok /\ calls[1].wrote) =>
        /\ calls[1].http \in {1, 2}
        /\ calls[2].done
        /\ calls[2].hit
        /\ calls[2].http = 0
        /\ calls[2].value = calls[1].value
        /\ calls[2].key = calls[1].key

\* C3 as stated: the two calls make exactly one network call in total.
C3_ExactlyOneNetworkCall ==
    (Len(calls) = 2 /\ ~calls[1].hit /\ calls[1].ok /\ calls[1].wrote) =>
        /\ calls[1].http + calls[2].http = 1
        /\ calls[2].value = calls[1].value

\* a second call served from the cache after a first call that fetched the list
C3_Witness ==
    /\ Len(calls) = 2
    /\ ~calls[1].hit
    /\ calls[1].wrote
    /\ calls[1].http = 1
    /\ calls[2].hit
    /\ tips = calls[1].value
    /\ tips # <<>>

\* C4 (as amended): with an API key configured and a profile stored,
\* loadTips(false) issues an HTTP request whatever the cache holds for the key;
\* when the request succeeds the entry of the key is overwritten with the new
\* list, unless the storage refuses the write.
C4_ForceRefresh ==
    /\ (obs.op \in ForceOps /\ obs.did.ran /\ apiKey) =>
            /\ ~obs.did.hit
            /\ obs.did.http = 1
            /\ \E i \in 1..Len(listReqs) :
                    /\ listReqs[i].key = obs.did.key
                    /\ listReqs[i].force
                    /\ listReqs[i].call.pc = "http"
    /\ (obs.op = "listSettled" /\ obs.req.force /\ obs.req.call.outcome.ok /\ obs.accepted) =>
            getItem(store, obs.req.key) = RawText(FALSE, JsonArray(obs.req.call.outcome.value))

\* C4 as stated: force-refresh always performs a network call, and on success
\* the entry is overwritten.
C4_AlwaysNetworkCall ==
    /\ (obs.op \in ForceOps /\ obs.did.ran) => obs.did.http >= 1
    /\ (obs.op = "listSettled" /\ obs.req.force /\ obs.req.call.outcome.ok) =>
            getItem(store, obs.req.key) = RawText(FALSE, JsonArray(obs.req.call.outcome.value))

\* Regenerate found a valid list in the cache and still issued a request
C4_Witness ==
    /\ obs.op = "regenerate"
    /\ obs.did.ran
    /\ NonEmptyArrayText(obs.did.cached)
    /\ obs.did.http = 1
    /\ getItem(store, obs.did.key) = Null

\* C5: without an API key a call of the client fails at once with the
\* configuration error: no HTTP request, withRetry not entered, no promise left
\* pending, the error shown, and nothing written to the cache.
C5_NoKeyFailsFast ==
    ~apiKey =>
        /\ listReqs = <<>>
        /\ detailReqs = <<>>
        /\ \A k \in DOMAIN store : k[1] \in {"tips:", "tipDetail:"} => store[k] \in LeftOverTexts
        /\ (obs.op \in ListLoadOps \cup DetailLoadOps /\ obs.did.ran /\ ~obs.did.hit) =>
                /\ obs.did.http = 0
                /\ obs.did.call.pc = "done"
                /\ ~obs.did.call.entered
                /\ obs.did.call.errs = <<>>
                /\ obs.did.call.outcome = Fail(ConfigError)
                /\ getItem(store, obs.did.key) \in {Null, obs.did.cached}
                /\ IF obs.op \in ListLoadOps
                   THEN ~loading /\ error = [kind |-> "message", msg |-> ConfigError.msg]
                   ELSE ~detailLoading /\ detailError = [kind |-> "message", msg |-> ConfigError.msg]

\* a tip of a cached list was opened without an API key
C5_Witness ==
    /\ ~apiKey
    /\ obs.op = "tipClick"
    /\ obs.did.ran
    /\ ~obs.did.hit
    /\ selectedTip # Null
    /\ detailError # Null

\* C6: a successful fetchGeminiTips returns the first min(n, 5) elements of the
\* n-element upstream array, in order: between 1 and 5 tips.
C6_FirstFive ==
    (call.pc = "done" /\ call.fn = "tips" /\ call.outcome.ok) =>
        /\ obs.op = "response"
        /\ LET upstream == obs.resp.text.body.items
               n == Len(upstream)
               got == call.outcome.value
           IN /\ n >= 1
              /\ Len(got) = IF n < 5 THEN n ELSE 5
              /\ Len(got) \in 1..5
              /\ \A i \in 1..Len(got) : got[i] = upstream[i]

\* an upstream array of more than 5 elements was cut to 5
C6_Witness ==
    /\ call.pc = "done"
    /\ call.fn = "tips"
    /\ call.outcome.ok
    /\ Len(obs.resp.text.body.items) > 5
    /\ Len(call.outcome.value) = 5

\* C7: every Tip a successful fetchGeminiTips returns has a non-empty id and a
\* non-empty title.
C7_TipsHaveIdAndTitle ==
    (call.pc = "done" /\ call.fn = "tips" /\ call.outcome.ok) =>
        \A i \in 1..Len(call.outcome.value) :
            /\ call.outcome.value[i].id # ""
            /\ call.outcome.value[i].title # ""

\* the saved tips hold no two records with the same tipId
NoDuplicates(saved) ==
    \A i, j \in 1..Len(saved) : saved[i].tipId = saved[j].tipId => i = j

\* C8: after saveTip(x, ...) the tip x is saved, and a saveTip(x, ...) that
\* follows it leaves the saved tips (size, records, savedAt) and their stored
\* text as the first call left them.
C8_SaveIdempotent ==
    /\ obs.op = "saveTip" => \E i \in 1..Len(savedTips) : savedTips[i].tipId = obs.tipId
    /\ (obs.op = "saveTip" /\ obs.again) =>
            /\ savedTips = obs.before
            /\ getItem(store, STORAGE_KEY) = obs.storedBefore

\* a tip saved earlier was saved again at a later time
C8_Witness ==
    /\ obs.op = "saveTip"
    /\ obs.again
    /\ Len(savedTips) = 2
    /\ \E i \in 1..Len(savedTips) : savedTips[i].tipId = obs.tipId /\ savedTips[i].savedAt < now

\* C9 (as amended): for saved tips S that do not hold x, saveTip(x, ...) followed
\* by removeTip(x) leaves the saved tips equal to S.
C9_SaveRemoveRestores ==
    (obs.op = "removeTip" /\ obs.afterSave /\ ~obs.saveWas) => savedTips = obs.preSave

\* C9 as stated: for any saved tips S and any x.
C9_SaveRemoveRestoresAny ==
    (obs.op = "removeTip" /\ obs.afterSave) => savedTips = obs.preSave

\* a new tip was saved and removed again while another tip stayed saved
C9_Witness ==
    /\ obs.op = "removeTip"
    /\ obs.afterSave
    /\ ~obs.saveWas
    /\ obs.preSave # <<>>
    /\ savedTips = obs.preSave

\* C10: neither the saved tips in memory nor the array stored under
\* wellnessSavedTips holds two records with the same tipId.
C10_NoDuplicateTipIds ==
    /\ NoDuplicates(savedTips)
    /\ LET stored == getItem(store, STORAGE_KEY) IN
       stored # Null =>
            /\ stored.kind = "text"
            /\ stored.body.kind = "array"
            /\ NoDuplicates(stored.body.items)

\* a tip already saved was saved again while two tips were saved and stored
C10_Witness ==
    /\ obs.op = "saveTip"
    /\ obs.was
    /\ Len(savedTips) = 2
    /\ getItem(store, STORAGE_KEY) = RawText(FALSE, JsonArray(savedTips))

\* C11: after handleLogout the profile key, the saved-tips key and every
\* tips: / tipDetail: key are absent from the store and the saved tips are
\* empty.
C11_LogoutClearsAll ==
    obs.op = "logout" =>
        /\ ProfileKey \notin DOMAIN store
        /\ STORAGE_KEY \notin DOMAIN store
        /\ \A k \in DOMAIN store : k[1] \notin {"tips:", "tipDetail:"}
        /\ savedTips = <<>>

\* C12: when both attempts failed, a rejection of fetch reaches the caller as
\* the network error, an Error the client raised itself reaches it unchanged,
\* and any other thrown value reaches it as the generic unexpected error.
C12_FinalClassification ==
    (call.pc = "done" /\ call.entered /\ ~call.outcome.ok /\ obs.op = "response") =>
        LET thrown == Attempt(call.fn, obs.resp).error IN
        IF obs.resp.kind = "reject"
        THEN call.outcome.error = NetworkError
        ELSE IF thrown.type = "Error"
             THEN call.outcome.error = thrown
             ELSE call.outcome.error = UnexpectedError(call.fn)

\* C13: when both attempts were answered non-2xx, the caller gets an Error
\* whose message is the prefix of the function followed by the upstream
\* error.message when the body has one, and by "Server error: <status>
\* <statusText>" otherwise.
C13_UpstreamMessage ==
    (/\ call.pc = "done"
     /\ Len(call.errs) = 2
     /\ obs.op = "response"
     /\ obs.resp.kind = "status"
     /\ call.errs[1].msg[1] \in {"Failed to generate tips: ", "Failed to load tip details: "}) =>
        /\ ~call.outcome.ok
        /\ call.outcome.error.type = "Error"
        /\ call.outcome.error.msg =
              <<IF call.fn = "tips" THEN "Failed to generate tips: "
                                    ELSE "Failed to load tip details: ">>
              \o (IF obs.resp.msg # ""
                  THEN <<obs.resp.msg>>
                  ELSE <<"Server error: ", obs.resp.status, " ", obs.resp.statusText>>)

\* HTTP 429 {error: {message: 'quota exceeded'}} on both attempts of fetchGeminiTips
C13_Witness ==
    /\ call.pc = "done"
    /\ call.fn = "tips"
    /\ Len(call.errs) = 2
    /\ call.errs[1] = call.errs[2]
    /\ obs.op = "response"
    /\ obs.resp.kind = "status"
    /\ call.outcome.error.msg = <<"Failed to generate tips: ", "quota exceeded">>

\* C19: a call issues at most two HTTP requests, one per attempt: one more
\* than the retry timers that fired, the second only after the first attempt
\* failed, none after an attempt succeeded.
C19_AtMostTwoRequests ==
    call.pc # "idle" =>
        /\ call.http <= 2
        /\ call.http = IF call.entered THEN 2 - call.retries ELSE 0
        /\ call.pc = "http" => Len(call.errs) = call.http - 1
        /\ call.pc = "delay" => call.http = 1 /\ Len(call.errs) = 1
        /\ (call.pc = "done" /\ call.outcome.ok) => Len(call.errs) = call.http - 1
        /\ (call.pc = "done" /\ ~call.outcome.ok) => Len(call.errs) = call.http
        /\ call.http = 2 => call.errs # <<>>

\* the second request is awaited after the first attempt failed
C19_Witness ==
    /\ call.pc = "http"
    /\ call.http = 2
    /\ Len(call.errs) = 1
    /\ obs.op = "delay"

\* C15: a profile stored under wellnessProfile has an integer age from 10 to
\* 80, a selected gender and exactly one goal id; a submit that fails
\* validation leaves the store as it was and the form on screen.
C15_OnlyValidProfiles ==
    /\ ProfileKey \in DOMAIN store =>
            /\ store[ProfileKey].kind = "text"
            /\ ~store[ProfileKey].fenced
            /\ LET profile == store[ProfileKey].body IN
               /\ profile.age \in 10..80
               /\ profile.gender \in {"male", "female", "other", "prefer-not-to-say"}
               /\ Len(profile.goals) = 1
               /\ profile.goals[1] \in {"better-sleep", "weight-loss"}
    /\ obs.op = "submitRejected" =>
            /\ store = obs.store
            /\ route = "/"
            /\ form.errors # {}

\* the oldest age the form takes was submitted and stored
C15_Witness ==
    /\ obs.op = "submitProfile"
    /\ route = "/board"
    /\ ProfileKey \in DOMAIN store
    /\ store[ProfileKey].body.age = 80
    /\ Len(store[ProfileKey].body.goals) = 1

\* the ids of the tips of the list now cached under tips:<goalLabel>:<age> of
\* the stored profile
CachedTipIds ==
    LET stored == getItem(store, ProfileKey) IN
    IF stored = Null THEN {}
    ELSE LET profile == stored.body
             cached == getItem(store, <<"tips:", GOAL_LABELS(profile.goals[1]), ":", profile.age>>)
         IN IF cached = Null \/ cached.fenced \/ cached.body.kind # "array" THEN {}
            ELSE {cached.body.items[i].id : i \in 1..Len(cached.body.items)}

\* C18: the saved board shows exactly the saved records whose tipId occurs in
\* the tip list now cached for the stored profile.
C18_SavedBoardShowsCached ==
    route = "/board/saved" =>
        availableSavedTips(savedTips, tipsData)
            = SelectSeq(savedTips, LAMBDA t : t.tipId \in CachedTipIds)

\* C17: an attempt of fetchDetail whose text parses succeeds if the parsed
\* value has a non-empty description string and an array of steps, and fails
\* with the format error for every other parsed value.
C17_DetailFormat ==
    (/\ obs.op = "response"
     /\ call.fn = "detail"
     /\ obs.resp.kind = "ok"
     /\ obs.resp.text.kind = "text"
     /\ obs.resp.text.body # Garbage) =>
        LET v == obs.resp.text.body
            wellFormed == /\ v.kind = "object"
                          /\ v.description.kind = "string"
                          /\ v.description.s # ""
                          /\ v.steps.kind = "array"
        IN IF wellFormed
           THEN call.pc = "done" /\ call.outcome = Ok(v)
           ELSE /\ ~(call.pc = "done" /\ call.outcome.ok)
                /\ call.errs # <<>>
                /\ call.errs[Len(call.errs)]
                      = Err("Error", <<"Invalid tip detail format received from API">>)

C16_DetailReadThrough ==
    (obs.op \in DetailLoadOps /\ obs.did.ran) =>
        LET cached == obs.did.cached
            wellFormed == /\ cached.kind = "text"
                          /\ ~cached.fenced
                          /\ cached.body.kind = "object"
                          /\ cached.body.description.kind = "string"
                          /\ cached.body.description.s # ""
                          /\ cached.body.steps.kind = "array"
        IN /\ obs.did.hit <=> wellFormed
           /\ obs.did.http = IF wellFormed THEN 0 ELSE 1

\* C21: loadTips(false) leaves its key absent from the store whatever was
\* cached; a tips: key comes into the store only in the step that settles a
\* successful request for that key; and the step that settles a failed forced
\* request leaves the store as it is, so the earlier list does not come back.
C21_ForceRefreshDeletes ==
    [][/\ (obs'.op \in ForceOps /\ obs'.did.ran) => obs'.did.key \notin DOMAIN store'
       /\ \A k \in DOMAIN store' \ DOMAIN store :
            k[1] = "tips:" =>
                /\ obs'.op = "listSettled"
                /\ obs'.req.key = k
                /\ obs'.req.call.outcome.ok
       /\ (obs'.op = "listSettled" /\ obs'.req.force /\ ~obs'.req.call.outcome.ok) =>
            store' = store
      ]_vars

\* a forced request failed and its key is still absent
C21_Witness ==
    /\ obs.op = "listSettled"
    /\ obs.req.force
    /\ ~obs.req.call.outcome.ok
    /\ obs.req.key \notin DOMAIN store
    /\ error # Null

\* the text stored under wellnessSavedTips is the in-memory saved tips, stringified
PersistedIsMemory == getItem(store, STORAGE_KEY) = JsonStringify(JsonArray(savedTips))

\* C22: after a removeTip call, and after a saveTip call for a tip that was not
\* in the in-memory saved tips, whose storage write did not fail, the array
\* stored under wellnessSavedTips equals the in-memory saved tips, also after
\* a logout.
C22_PersistedEqualsMemory ==
    (\/ obs.op = "saveTip" /\ ~obs.was /\ ~obs.failed
     \/ obs.op = "removeTip" /\ obs.accepted)
        => PersistedIsMemory

\* C22 as stated: the same after any saveTip call whose write did not fail
C22_AfterAnyCall ==
    (\/ obs.op = "saveTip" /\ ~obs.failed
     \/ obs.op = "removeTip" /\ obs.accepted)
        => PersistedIsMemory

\* a tip was saved after a logout, next to one kept in memory from before it
C22_Witness ==
    /\ obs.op = "saveTip"
    /\ ~obs.was
    /\ ~obs.failed
    /\ ProfileKey \notin DOMAIN store
    /\ Len(savedTips) = 2
    /\ PersistedIsMemory

\* the cache key of the loadTips / loadTipDetail call, or of the request, that
\* the step described by o belongs to
OwnKey(o) ==
    IF o.op \in ListLoadOps \cup DetailLoadOps
    THEN (IF o.did.ran THEN o.did.key ELSE Null)
    ELSE IF o.op \in {"listSettled", "detailSettled"} THEN o.req.key
    ELSE Null

\* C23: every step other than a logout leaves each tips: / tipDetail: entry
\* under a key other than the step's own cache key present and unchanged,
\* also after the profile's age and goal changed; a logout removes them all.
C23_CachePartitioning ==
    [][IF obs'.op = "logout"
       THEN \A k \in DOMAIN store' : ~IsCacheKey(k)
       ELSE \A k \in DOMAIN store \cup DOMAIN store' :
                (IsCacheKey(k) /\ k # OwnKey(obs')) =>
                    /\ k \in DOMAIN store
                    /\ k \in DOMAIN store'
                    /\ store'[k] = store[k]
      ]_vars

\* a request of the second profile was stored while the list and a detail of
\* the first profile are still cached
C23_Witness ==
    /\ obs.op = "listSettled"
    /\ obs.req.call.outcome.ok
    /\ obs.req.key = TipsKey("weight loss", 30)
    /\ obs.req.key \in DOMAIN store
    /\ TipsKey("better sleep", 25) \in DOMAIN store
    /\ \E k \in DOMAIN store : k[1] = "tipDetail:"

\* the text once trimmed begins with a fence and ends with another one
IsFencedBlock(t) ==
    /\ startsWith(t, Fence)
    /\ Len(t) >= 2 * Len(Fence)
    /\ SubSeq(t, Len(t) - Len(Fence) + 1, Len(t)) = Fence

\* the trimmed text between the opening fence with its language name, made of
\* the characters of names, and the fence that ends the text
InnerText(t, names) ==
    trim(SubSeq(t, Skip(t, Len(Fence) + 1, names), Len(t) - Len(Fence)))

\* r is s without the white space around it
IsTrimOf(r, s) ==
    /\ \E i \in 1..(Len(s) + 1), j \in 0..Len(s) :
            /\ r = SubSeq(s, i, j)
            /\ \A k \in 1..(i - 1) : s[k] \in Spaces
            /\ \A k \in (j + 1)..Len(s) : s[k] \in Spaces
    /\ r = <<>> \/ (r[1] \notin Spaces /\ r[Len(r)] \notin Spaces)

\* C24: of a text that once trimmed begins with a fence, with or without a
\* language name made of letters, and ends with a closing fence,
\* extractJsonBlock returns the trimmed text between the opening fence with
\* its name and the last fence; of a text with no leading fence it returns
\* the text trimmed and otherwise unchanged.
C24_FenceStripped ==
    call.pc = "extracted" =>
        LET t == trim(call.text) IN
        /\ IsTrimOf(t, call.text)
        /\ IsFencedBlock(t) => call.jsonText = InnerText(t, Letters)
        /\ ~startsWith(t, Fence) => call.jsonText = t

\* C24 as stated, for a language name that starts with a letter, goes on
\* with letters and digits, and ends the opening fence line
C24_AnyLanguageName ==
    call.pc = "extracted" =>
        LET t == trim(call.text)
            names == Letters \cup Digits
            lineEnd == Skip(t, Len(Fence) + 1, names)
        IN (IsFencedBlock(t) /\ t[Len(Fence) + 1] \in Letters /\ t[lineEnd] = "\n") =>
                call.jsonText = InnerText(t, names)

\* a fenced JSON array tagged with a language name was reduced to the array
C24_Witness ==
    /\ call.pc = "extracted"
    /\ call.text = Fence \o <<"j", "\n">> \o ArrayText \o Fence
    /\ call.jsonText = ArrayText

\* the error state holds a message with at least one character
NonEmptyMessage(e) == e.kind = "message" /\ \E i \in 1..Len(e.msg) : e.msg[i] # ""

\* the list request sequence of record r ended without tips to show
ListFailed(r) == ~r.call.outcome.ok \/ Len(r.call.outcome.value) = 0

\* the sequence started by the loadTips / loadTipDetail call `did` failed
\* before any HTTP request
FailedAtOnce(did) == did.ran /\ ~did.hit /\ did.call.pc = "done" /\ ~did.call.outcome.ok

\* C25: when a list or detail request sequence ends in failure and the board
\* that started it is still mounted, error / detailError holds a non-empty
\* message and the loading flag is false in the state the sequence completes in.
C25_ErrorsShown ==
    /\ (obs.op = "listSettled" /\ obs.req.live /\ ListFailed(obs.req)) =>
            NonEmptyMessage(error) /\ ~loading
    /\ (obs.op \in ListLoadOps /\ FailedAtOnce(obs.did)) =>
            NonEmptyMessage(error) /\ ~loading
    /\ (obs.op = "detailSettled" /\ obs.req.live /\ ~obs.req.call.outcome.ok) =>
            NonEmptyMessage(detailError) /\ ~detailLoading
    /\ (obs.op \in DetailLoadOps /\ FailedAtOnce(obs.did)) =>
            NonEmptyMessage(detailError) /\ ~detailLoading

\* C25 as stated: the same for every list request sequence that fails
C25_NoErrorDropped ==
    (obs.op = "listSettled" /\ ListFailed(obs.req)) =>
        NonEmptyMessage(error) /\ ~loading

\* a list request of the mounted board failed twice and its error is shown
C25_Witness ==
    /\ obs.op = "listSettled"
    /\ obs.req.live
    /\ ~obs.req.call.outcome.ok
    /\ Len(obs.req.call.errs) = 2
    /\ NonEmptyMessage(error)
    /\ ~loading

\* the last step settled a list request with a list that the storage took
ListStored(o) ==
    /\ o.op = "listSettled"
    /\ o.accepted
    /\ ~ListFailed(o.req)

\* C26: a loadTips call that misses the cache issues its own HTTP request also
\* while another request for the same key is pending; every response that is
\* applied with a list leaves that list under the cache key, so the key holds
\* the result applied last; and the board shows that list when the request
\* was started by the board that is mounted.
C26_LastWriterWins ==
    /\ (obs.op \in ListLoadOps /\ obs.did.ran /\ ~obs.did.hit /\ apiKey) =>
            /\ obs.did.http = 1
            /\ listReqs # <<>>
            /\ Last(listReqs).call = obs.did.call
            /\ Last(listReqs).key = obs.did.key
    /\ ListStored(obs) =>
            /\ getItem(store, obs.req.key) = JsonStringify(JsonArray(obs.req.call.outcome.value))
            /\ obs.req.live => tips = obs.req.call.outcome.value

\* C26 as stated: when the board shows a list, the list applied last is both
\* in the cache and the list shown
C26_LastWriterShown ==
    (ListStored(obs) /\ route = "/board" /\ tips # <<>>) =>
        /\ getItem(store, obs.req.key) = JsonStringify(JsonArray(obs.req.call.outcome.value))
        /\ tips = obs.req.call.outcome.value

\* two requests for one key overlapped and both succeeded: the board mounted
\* last shows its own list, the cache holds the list applied last
C26_Witness ==
    /\ ListStored(obs)
    /\ ~obs.req.live
    /\ route = "/board"
    /\ TipsKey(goalLabel, StoredAge(store)) = obs.req.key
    /\ listReqs = <<>>
    /\ tips # <<>>
    /\ tips # obs.req.call.outcome.value
    /\ getItem(store, obs.req.key) = JsonStringify(JsonArray(obs.req.call.outcome.value))

\* the pending list request sequences that the mounted board started
LiveListReqs == {i \in 1..Len(listReqs) : listReqs[i].live}

\* C27: at most one list request sequence started by the mounted board is
\* pending, and it is pending exactly while the board's loading flag is set, so
\* that Regenerate and Try Again cannot start another.
C27_OnePerBoard ==
    /\ Cardinality(LiveListReqs) <= 1
    /\ loading <=> LiveListReqs # {}
    /\ route # "/board" => LiveListReqs = {}

\* C27 as stated: while the board screen is shown at most one list request
\* sequence is pending.
C27_AtMostOneInFlight == route = "/board" => Len(listReqs) <= 1

\* the initial load of a board started a sequence while the sequence of the
\* board before it is still pending
C27_Witness ==
    /\ obs.op = "mount"
    /\ route = "/board"
    /\ loading
    /\ Len(listReqs) = 2
    /\ Cardinality(LiveListReqs) = 1

\* C28: going back or opening a tip leaves every pending detail request
\* pending, and the step in which a detail request of the mounted board
\* settles puts its result or its error into detail / detailError and resets
\* detailLoading, whichever tip is selected then.
C28_LateDetailApplied ==
    [][/\ obs'.op \in {"back"} \cup DetailLoadOps =>
            SubSeq(detailReqs', 1, Len(detailReqs)) = detailReqs
       /\ (obs'.op = "detailSettled" /\ obs'.req.live) =>
            /\ ~detailLoading'
            /\ IF obs'.req.call.outcome.ok
               THEN detail' = obs'.req.call.outcome.value /\ detailError' = Null
               ELSE /\ detail' = detail
                    /\ detailError' =
                          Message(obs'.req.call.outcome.error,
                                  <<"Unable to load details for this tip. Please try again.">>)
      ]_vars

\* the detail of a tip arrived after the user went back to the list, and is
\* held as the detail of the view
C28_Witness ==
    /\ obs.op = "detailSettled"
    /\ obs.req.call.outcome.ok
    /\ selectedTip = Null
    /\ detail = obs.req.call.outcome.value
    /\ ~detailLoading

\* the cache keys whose entry the step wrote
WrittenKeys(st, after) ==
    {k \in DOMAIN after : IsCacheKey(k) /\ (k \notin DOMAIN st \/ after[k] # st[k])}

\* C29: every step that writes a cache entry settles a successful request,
\* writes the value the request returned, and writes it under the key made of
\* the arguments the request was made with: tips:<g>:<a> for
\* fetchGeminiTips(g, a), tipDetail:<g>:<id>:<a> for fetchGeminiDetail(g,
\* title, a) of the tip with that id, whichever tip is selected then.
C29_NoCrossWrite ==
    [][\A k \in WrittenKeys(store, store') :
            \/ /\ obs'.op = "listSettled"
               /\ obs'.req.call.fn = "tips"
               /\ obs'.req.call.outcome.ok
               /\ k = TipsKey(obs'.req.args.goalLabel, obs'.req.args.age)
               /\ store'[k] = JsonStringify(JsonArray(obs'.req.call.outcome.value))
            \/ /\ obs'.op = "detailSettled"
               /\ obs'.req.call.fn = "detail"
               /\ obs'.req.call.outcome.ok
               /\ obs'.req.args.tipTitle = obs'.req.tip.title
               /\ k = DetailKey(obs'.req.args.goalLabel, obs'.req.tip.id, obs'.req.args.age)
               /\ store'[k] = JsonStringify(obs'.req.call.outcome.value)
      ]_vars

\* the detail of one tip arrived and was stored under that tip's key while
\* another tip was selected
C29_Witness ==
    /\ obs.op = "detailSettled"
    /\ obs.req.call.outcome.ok
    /\ selectedTip # Null
    /\ selectedTip.id # obs.req.tip.id
    /\ getItem(store, DetailKey(obs.req.args.goalLabel, obs.req.tip.id, obs.req.args.age))
            = JsonStringify(obs.req.call.outcome.value)
    /\ getItem(store, DetailKey(goalLabel, selectedTip.id, StoredAge(store)))
            # JsonStringify(obs.req.call.outcome.value)

\* every pending request has made at most Retries + 1 HTTP requests
AttemptsBounded ==
    /\ \A i \in 1..Len(listReqs) : listReqs[i].call.http <= Retries + 1
    /\ \A i \in 1..Len(detailReqs) : detailReqs[i].call.http <= Retries + 1

\* C30: when every HTTP request is answered and every retry timer fires, no
\* request sequence makes more than two attempts, a list request that is
\* pending is settled, and loading / detailLoading, once raised, is false again
\* later, unless the page is reloaded first.
C30_Terminates ==
    /\ []AttemptsBounded
    /\ (listReqs # <<>>) ~> (listReqs = <<>> \/ obs.op = "reload")
    /\ loading ~> (~loading \/ obs.op = "reload")
    /\ detailLoading ~> (~detailLoading \/ obs.op = "reload")

\* a list request sequence ended in an error after its second attempt, and
\* loading is false again
C30_Witness ==
    /\ obs.op = "listSettled"
    /\ obs.req.call.http = Retries + 1
    /\ ~obs.req.call.outcome.ok
    /\ ~loading
    /\ listReqs = <<>>

====
